---- MODULE Spec2Model ----
(***************************************************************************)
(* A model of vector.py: the Vector class (a subclass of tuple) and its    *)
(* arithmetic, comparison, display and dimension-gated geometry methods.   *)
(*                                                                         *)
(* A behaviour constructs one Vector (Init) and then applies one           *)
(* operation to it; the operation's other inputs are drawn from bounded    *)
(* sets.  Every Python value is a record tagged by "kind":                 *)
(*   int       [kind |-> "int", val |-> n]                                 *)
(*   sequence  [kind |-> "Vector" | "tuple" | "list", elems |-> <<..>>]    *)
(*   float     [kind |-> "float", fn |-> ..., ...]  (a symbolic real:      *)
(*             the only facts used are which floats are exactly zero)      *)
(*   raise     [kind |-> "raise", exc |-> ..., ...]  (an exception)        *)
(* The elements of a sequence of integers are plain integers.              *)
(***************************************************************************)
EXTENDS Integers, Sequences, FiniteSets

VARIABLES self, other, arg, op, call, result

vars == <<self, other, arg, op, call, result>>

(***************************************************************************)
(* Bounds.                                                                 *)
(***************************************************************************)
MaxLen == 3
MaxElem == 1

Elems == -1 .. MaxElem

Tuples == UNION {[1..n -> Elems] : n \in 0..MaxLen}

SeqKinds == {"Vector", "tuple", "list"}

SeqOperands == [kind : SeqKinds, elems : Tuples]

PyInt(n) == [kind |-> "int", val |-> n]

Scalars == {PyInt(n) : n \in Elems}

Operands == SeqOperands \cup Scalars

None == [kind |-> "None"]

NotImplemented == [kind |-> "NotImplemented"]

Bool(b) == [kind |-> "bool", val |-> b]

Raise(exc) == [kind |-> "raise", exc |-> exc]

(***************************************************************************)
(* class IncompatibleDimensions(Exception), raised with two arguments.     *)
(***************************************************************************)
IncompatibleDimensions(a, b) ==
    [kind |-> "raise", exc |-> "IncompatibleDimensions", args |-> <<a, b>>]

(***************************************************************************)
(* isinstance(other, Sequence): tuple and list are registered with         *)
(* collections.Sequence, and Vector is a subclass of tuple.                *)
(***************************************************************************)
IsSequence(o) == o.kind \in {"Vector", "tuple", "list"}

IsRaise(r) == r.kind = "raise"

(***************************************************************************)
(* Vector.__new__(cls, *args).  args is the tuple of arguments.  A single  *)
(* argument is taken as the iterable of the elements; tuple() of something *)
(* that is not iterable is a TypeError.                                    *)
(***************************************************************************)
Unwrap(a) == IF a.kind = "int" THEN a.val ELSE a

Vector__new__(args) ==
    IF Len(args) = 1
    THEN IF args[1].kind \in {"Vector", "tuple", "list", "generator"}
         THEN [kind |-> "Vector", elems |-> args[1].elems]
         ELSE Raise("TypeError")
    ELSE [kind |-> "Vector", elems |-> [i \in 1..Len(args) |-> Unwrap(args[i])]]

Generator(s) == [kind |-> "generator", elems |-> s]

(***************************************************************************)
(* A generator expression whose element computations may raise: tuple()    *)
(* consumes it in order, so the first exception propagates and no Vector   *)
(* is built.  rs is the sequence of the element outcomes (records).        *)
(***************************************************************************)
VectorOfOutcomes(rs) ==
    IF \E i \in 1..Len(rs) : IsRaise(rs[i])
    THEN rs[CHOOSE i \in 1..Len(rs) :
                /\ IsRaise(rs[i])
                /\ \A j \in 1..(i-1) : ~IsRaise(rs[j])]
    ELSE Vector__new__(<<Generator(rs)>>)

(* _check_compatibility reporting the two lengths in the other order. *)
_check_compatibility_swapped(slf, oth) ==
    IF ~IsSequence(oth) THEN Raise("TypeError")
    ELSE IF Len(slf) # Len(oth.elems)
         THEN IncompatibleDimensions(Len(oth.elems), Len(slf))
         ELSE [kind |-> "ok"]

(***************************************************************************)
(* Vector._check_compatibility: "ok", or the exception it raises.  len()   *)
(* of an object without a length is a TypeError.                           *)
(***************************************************************************)
_check_compatibility(slf, oth) ==
    IF ~IsSequence(oth) THEN Raise("TypeError")
    ELSE IF Len(slf) # Len(oth.elems)
         THEN IncompatibleDimensions(Len(slf), Len(oth.elems))
         ELSE [kind |-> "ok"]

(***************************************************************************)
(* Vector._dimension_error(name): the ValueError whose message is          *)
(* '.{name}() is not implemented for {len(self)}-dimensional vectors.'     *)
(***************************************************************************)
_dimension_error(slf, name) ==
    [kind |-> "raise", exc |-> "ValueError", name |-> name, dim |-> Len(slf)]

(***************************************************************************)
(* zip(self, other) stops at the shorter of the two.                       *)
(***************************************************************************)
ZipLen(a, b) == IF Len(a) <= Len(b) THEN Len(a) ELSE Len(b)

(***************************************************************************)
(* The four operator methods for + and -.                                  *)
(***************************************************************************)
(* __add__ without the isinstance test. *)
__add__unguarded(slf, oth) ==
    LET c == _check_compatibility(slf, oth) IN
    IF IsRaise(c) THEN c
    ELSE Vector__new__(<<Generator([i \in 1..ZipLen(slf, oth.elems) |-> slf[i] + oth.elems[i]])>>)

__add__(slf, oth) ==
    IF ~IsSequence(oth) THEN NotImplemented
    ELSE LET c == _check_compatibility(slf, oth) IN
         IF IsRaise(c) THEN c
         ELSE Vector__new__(<<Generator([i \in 1..ZipLen(slf, oth.elems) |-> slf[i] + oth.elems[i]])>>)

(* __radd__ with the element operation of __rsub__. *)
__radd__minus(slf, oth) ==
    IF ~IsSequence(oth) THEN NotImplemented
    ELSE LET c == _check_compatibility(slf, oth) IN
         IF IsRaise(c) THEN c
         ELSE Vector__new__(<<Generator([i \in 1..ZipLen(slf, oth.elems) |-> oth.elems[i] - slf[i]])>>)

__radd__(slf, oth) ==
    IF ~IsSequence(oth) THEN NotImplemented
    ELSE LET c == _check_compatibility(slf, oth) IN
         IF IsRaise(c) THEN c
         ELSE Vector__new__(<<Generator([i \in 1..ZipLen(slf, oth.elems) |-> oth.elems[i] + slf[i]])>>)

__sub__(slf, oth) ==
    IF ~IsSequence(oth) THEN NotImplemented
    ELSE LET c == _check_compatibility(slf, oth) IN
         IF IsRaise(c) THEN c
         ELSE Vector__new__(<<Generator([i \in 1..ZipLen(slf, oth.elems) |-> slf[i] - oth.elems[i]])>>)

__rsub__(slf, oth) ==
    IF ~IsSequence(oth) THEN NotImplemented
    ELSE LET c == _check_compatibility(slf, oth) IN
         IF IsRaise(c) THEN c
         ELSE Vector__new__(<<Generator([i \in 1..ZipLen(slf, oth.elems) |-> oth.elems[i] - slf[i]])>>)

(***************************************************************************)
(* Python's binary operator protocol for the operand types of the model,   *)
(* as far as it decides which of Vector's methods runs.  tuple, list and   *)
(* int have no + or - that accepts a Vector: tuple and list only           *)
(* concatenate (tried last), int returns NotImplemented.  So with a Vector *)
(* on the left its method runs; with a Vector on the right only, its       *)
(* reflected method runs.  When the method returns NotImplemented the      *)
(* remaining fallback fails with TypeError.  Each operator gives the       *)
(* method called (and on whom), what it returned, and the expression's     *)
(* outcome.                                                                *)
(***************************************************************************)
Outcome(method, ret) ==
    [method |-> method, ret |-> ret,
     out |-> IF ret = NotImplemented THEN Raise("TypeError") ELSE ret]

BinaryAdd(left, right) ==
    IF left.kind = "Vector"
    THEN Outcome("__add__", __add__(left.elems, right))
    ELSE Outcome("__radd__", __radd__(right.elems, left))

BinarySub(left, right) ==
    IF left.kind = "Vector"
    THEN Outcome("__sub__", __sub__(left.elems, right))
    ELSE Outcome("__rsub__", __rsub__(right.elems, left))

(***************************************************************************)
(* Symbolic floats.  sqrt(n) is zero exactly when n is; a quotient by a    *)
(* zero divisor raises ZeroDivisionError (true division, for int and       *)
(* float alike).                                                           *)
(***************************************************************************)
sqrt(n) == [kind |-> "float", fn |-> "sqrt", x |-> n]

IsZero(d) == IF d.kind = "int" THEN d.val = 0 ELSE d.fn = "sqrt" /\ d.x = 0

TrueDiv(a, d) ==
    IF IsZero(d) THEN Raise("ZeroDivisionError")
    ELSE [kind |-> "float", fn |-> "div", x |-> a, y |-> d]

(* v * s for an element v (an integer) and a scalar s (int or float). *)
MulElem(v, s) ==
    IF s.kind = "int" THEN v * s.val
    ELSE [kind |-> "float", fn |-> "mul", x |-> v, y |-> s]

__mul__(slf, s) ==
    Vector__new__(<<Generator([i \in 1..Len(slf) |-> MulElem(slf[i], s)])>>)

__rmul__(slf, s) ==
    Vector__new__(<<Generator([i \in 1..Len(slf) |-> MulElem(slf[i], s)])>>)

(* s * v with an int on the left: int.__mul__ returns NotImplemented, so   *)
(* Vector.__rmul__ runs; v * s runs Vector.__mul__.                        *)
BinaryMul(left, right) ==
    IF left.kind = "Vector"
    THEN Outcome("__mul__", __mul__(left.elems, right))
    ELSE Outcome("__rmul__", __rmul__(right.elems, left))

__truediv__(slf, s) ==
    VectorOfOutcomes([i \in 1..Len(slf) |-> TrueDiv(PyInt(slf[i]), s)])

RECURSIVE sum(_)
sum(s) == IF Len(s) = 0 THEN 0 ELSE Head(s) + sum(Tail(s))

magnitude_squared(slf) == sum([i \in 1..Len(slf) |-> slf[i] * slf[i]])

__abs__(slf) == sqrt(magnitude_squared(slf))

dot(slf, oth) ==
    LET c == _check_compatibility(slf, oth) IN
    IF IsRaise(c) THEN c
    ELSE PyInt(sum([i \in 1..ZipLen(slf, oth.elems) |-> slf[i] * oth.elems[i]]))

(* cross testing its own dimension before comparing the two lengths. *)
cross_dimension_first(slf, oth) ==
    LET c == _check_compatibility(slf, oth)
        o == oth.elems
    IN  IF Len(slf) \notin {2, 3} THEN _dimension_error(slf, "cross")
        ELSE IF IsRaise(c) THEN c
        ELSE IF Len(slf) = 2
        THEN PyInt(slf[1] * o[2] - slf[2] * o[1])
        ELSE Vector__new__(<<PyInt(slf[2] * o[3] - slf[3] * o[2]),
                             PyInt(slf[3] * o[1] - slf[1] * o[3]),
                             PyInt(slf[1] * o[2] - slf[2] * o[1])>>)

(* cross with the two terms of the last component exchanged. *)
cross_swapped_sign(slf, oth) ==
    LET c == _check_compatibility(slf, oth)
        o == oth.elems
    IN  IF IsRaise(c) THEN c
        ELSE IF Len(slf) = 2
        THEN PyInt(slf[2] * o[1] - slf[1] * o[2])
        ELSE IF Len(slf) = 3
        THEN Vector__new__(<<PyInt(slf[2] * o[3] - slf[3] * o[2]),
                             PyInt(slf[3] * o[1] - slf[1] * o[3]),
                             PyInt(slf[2] * o[1] - slf[1] * o[2])>>)
        ELSE _dimension_error(slf, "cross")

cross(slf, oth) ==
    LET c == _check_compatibility(slf, oth)
        o == oth.elems
    IN  IF IsRaise(c) THEN c
        ELSE IF Len(slf) = 2
        THEN PyInt(slf[1] * o[2] - slf[2] * o[1])
        ELSE IF Len(slf) = 3
        THEN Vector__new__(<<PyInt(slf[2] * o[3] - slf[3] * o[2]),
                             PyInt(slf[3] * o[1] - slf[1] * o[3]),
                             PyInt(slf[1] * o[2] - slf[2] * o[1])>>)
        ELSE _dimension_error(slf, "cross")

(***************************************************************************)
(* Symbolic results of the math functions.  atan2 is total (atan2(0, 0)    *)
(* is 0.0); acos is applied to a quotient that exists.                     *)
(***************************************************************************)
atan2(y, x) == [kind |-> "float", fn |-> "atan2", y |-> y, x |-> x]

acos(q) == [kind |-> "float", fn |-> "acos", x |-> q]

angle(slf) ==
    IF Len(slf) = 2
    THEN atan2(PyInt(slf[2]), PyInt(slf[1]))
    ELSE _dimension_error(slf, "angle")

(* abs() of what cross returned: an int (2-D) or a Vector (3-D). *)
AbsOf(c) ==
    IF c.kind = "int"
    THEN PyInt(IF c.val < 0 THEN -c.val ELSE c.val)
    ELSE __abs__(c.elems)

angle_to(slf, oth) ==
    IF Len(slf) \in {2, 3}
    THEN LET c == cross(slf, oth) IN
         IF IsRaise(c) THEN c
         ELSE LET d == dot(slf, oth) IN
              IF IsRaise(d) THEN d ELSE atan2(AbsOf(c), d)
    ELSE LET d == dot(slf, oth) IN
         IF IsRaise(d) THEN d
         ELSE LET q == TrueDiv(d, sqrt(magnitude_squared(slf)
                                       * sum([i \in 1..Len(oth.elems) |->
                                                oth.elems[i] * oth.elems[i]])))
              IN  IF IsRaise(q) THEN q ELSE acos(q)

normalized(slf) == __truediv__(slf, __abs__(slf))

(* perpendicular turning clockwise: (y, -x). *)
perpendicular_clockwise(slf) ==
    IF Len(slf) = 2
    THEN Vector__new__(<<PyInt(slf[2]), PyInt(-slf[1])>>)
    ELSE _dimension_error(slf, "perpendicular")

perpendicular(slf) ==
    IF Len(slf) = 2
    THEN Vector__new__(<<PyInt(-slf[2]), PyInt(slf[1])>>)
    ELSE _dimension_error(slf, "perpendicular")

projected(slf, oth) ==
    LET d == dot(slf, oth) IN
    IF IsRaise(d) THEN d
    ELSE LET q == TrueDiv(d, PyInt(magnitude_squared(slf))) IN
         IF IsRaise(q) THEN q ELSE __mul__(slf, q)

(***************************************************************************)
(* rotated(theta).  sin(theta) and cos(theta) are symbolic floats, and so  *)
(* are the two dot products with the rows (c, -s) and (s, c) of the        *)
(* rotation matrix; dot still checks the lengths first.  theta ranges over *)
(* a few angle labels.                                                     *)
(***************************************************************************)
Thetas == {[kind |-> "angle", label |-> l] : l \in {"0", "pi/4", "pi/2", "-pi/4"}}

sin(theta) == [kind |-> "float", fn |-> "sin", x |-> theta]

cos(theta) == [kind |-> "float", fn |-> "cos", x |-> theta]

neg(f) == [kind |-> "float", fn |-> "neg", x |-> f]

FloatRow(a, b) == [kind |-> "tuple", elems |-> <<a, b>>]

dot_float(slf, oth) ==
    LET c == _check_compatibility(slf, oth) IN
    IF IsRaise(c) THEN c
    ELSE [kind |-> "float", fn |-> "dot", x |-> slf, y |-> oth.elems]

rotated(slf, theta) ==
    IF Len(slf) = 2
    THEN LET s == sin(theta)
             c == cos(theta)
         IN  Vector__new__(<<dot_float(slf, FloatRow(c, neg(s))),
                             dot_float(slf, FloatRow(s, c))>>)
    ELSE _dimension_error(slf, "rotated")

scaled(slf, s) ==
    LET q == TrueDiv(s, __abs__(slf)) IN
    IF IsRaise(q) THEN q ELSE __mul__(slf, q)

(***************************************************************************)
(* Vector defines no __eq__: == is tuple's.  tuple compares with a tuple   *)
(* (or an instance of a subclass) by the first index where the elements    *)
(* differ, and otherwise by length; for any other operand it returns       *)
(* NotImplemented, the operand's own reflected == does too, and the        *)
(* comparison falls back to identity: False.                               *)
(***************************************************************************)
RECURSIVE TupleEq(_, _)
TupleEq(a, b) ==
    IF Len(a) = 0 \/ Len(b) = 0 THEN Len(a) = Len(b)
    ELSE IF Head(a) # Head(b) THEN FALSE
    ELSE TupleEq(Tail(a), Tail(b))

(* == comparing elementwise with every sequence, not only with tuples. *)
__eq__any_sequence(slf, oth) ==
    IF IsSequence(oth)
    THEN Bool(TupleEq(slf, oth.elems))
    ELSE Bool(FALSE)

__eq__(slf, oth) ==
    IF oth.kind \in {"tuple", "Vector"}
    THEN Bool(TupleEq(slf, oth.elems))
    ELSE Bool(FALSE)

(***************************************************************************)
(* Display.  A rendering is the sequence of its tokens (white space        *)
(* dropped).  repr of an int is its decimal digits after an optional '-';  *)
(* repr of a tuple is '()', '(x,)' or '(x, y, ...)'.                       *)
(***************************************************************************)
DigitChar == <<"0", "1", "2", "3", "4", "5", "6", "7", "8", "9">>

RECURSIVE Digits(_)
Digits(n) ==
    IF n < 10 THEN <<DigitChar[n + 1]>>
    ELSE Digits(n \div 10) \o <<DigitChar[(n % 10) + 1]>>

IntRepr(n) == IF n < 0 THEN <<"-">> \o Digits(-n) ELSE Digits(n)

RECURSIVE JoinRepr(_)
JoinRepr(t) ==
    IF Len(t) = 0 THEN <<>>
    ELSE IF Len(t) = 1 THEN IntRepr(t[1])
    ELSE IntRepr(t[1]) \o <<",">> \o JoinRepr(Tail(t))

TupleRepr(t) ==
    IF Len(t) = 1 THEN <<"(">> \o IntRepr(t[1]) \o <<",", ")">>
    ELSE <<"(">> \o JoinRepr(t) \o <<")">>

(* __repr__ showing a single element bare: Vector(x). *)
__repr__bare_single(slf) ==
    IF Len(slf) = 1
    THEN <<"Vector", "(">> \o IntRepr(slf[1]) \o <<")">>
    ELSE <<"Vector">> \o TupleRepr(slf)

__repr__(slf) ==
    IF Len(slf) = 1
    THEN <<"Vector", "(">> \o TupleRepr(slf) \o <<")">>
    ELSE <<"Vector">> \o TupleRepr(slf)

(***************************************************************************)
(* Reading a rendering back as Python source: the argument list is what    *)
(* stands between the outer parentheses after the name; it is split at the *)
(* commas outside any parentheses (a trailing comma adds no argument), and *)
(* each argument is an int literal, a parenthesised expression '(e)', or a *)
(* tuple display '()' , '(e,)' , '(e, f, ...)'.                            *)
(***************************************************************************)
ArgTokens(r) == SubSeq(r, 3, Len(r) - 1)

RECURSIVE SplitTop(_, _, _, _)
SplitTop(ts, depth, cur, acc) ==
    IF Len(ts) = 0 THEN (IF Len(cur) = 0 THEN acc ELSE Append(acc, cur))
    ELSE LET t == Head(ts) IN
         IF t = "," /\ depth = 0 THEN SplitTop(Tail(ts), depth, <<>>, Append(acc, cur))
         ELSE IF t = "(" THEN SplitTop(Tail(ts), depth + 1, Append(cur, t), acc)
         ELSE IF t = ")" THEN SplitTop(Tail(ts), depth - 1, Append(cur, t), acc)
         ELSE SplitTop(Tail(ts), depth, Append(cur, t), acc)

RECURSIVE HasTopComma(_, _)
HasTopComma(ts, depth) ==
    IF Len(ts) = 0 THEN FALSE
    ELSE LET t == Head(ts) IN
         IF t = "," /\ depth = 0 THEN TRUE
         ELSE IF t = "(" THEN HasTopComma(Tail(ts), depth + 1)
         ELSE IF t = ")" THEN HasTopComma(Tail(ts), depth - 1)
         ELSE HasTopComma(Tail(ts), depth)

DigitValue(c) == CHOOSE d \in 0..9 : DigitChar[d + 1] = c

RECURSIVE ParseNat(_, _)
ParseNat(ts, acc) ==
    IF Len(ts) = 0 THEN acc
    ELSE ParseNat(Tail(ts), 10 * acc + DigitValue(Head(ts)))

RECURSIVE ParseExpr(_)
ParseExpr(ts) ==
    IF Head(ts) = "("
    THEN LET inner == SubSeq(ts, 2, Len(ts) - 1) IN
         IF Len(inner) = 0 \/ HasTopComma(inner, 0)
         THEN LET parts == SplitTop(inner, 0, <<>>, <<>>) IN
              [kind |-> "tuple",
               elems |-> [i \in 1..Len(parts) |-> Unwrap(ParseExpr(parts[i]))]]
         ELSE ParseExpr(inner)
    ELSE IF Head(ts) = "-" THEN PyInt(-ParseNat(Tail(ts), 0))
    ELSE PyInt(ParseNat(ts, 0))

ParseArgs(ts) ==
    LET parts == SplitTop(ts, 0, <<>>, <<>>) IN
    [i \in 1..Len(parts) |-> ParseExpr(parts[i])]

(***************************************************************************)
(* The state machine.  Init is a freshly constructed Vector (from an       *)
(* iterable of its elements); each action applies one operation to it.     *)
(***************************************************************************)
NoCall == [method |-> "none", ret |-> None]

Vec(t) == [kind |-> "Vector", elems |-> t]

Init ==
    /\ self \in Tuples
    /\ other = None
    /\ arg = None
    /\ op = "new"
    /\ call = NoCall
    /\ result = Vector__new__(<<[kind |-> "tuple", elems |-> self]>>)

(* The expression  self <operator> o  or  o <operator> self. *)
Apply(name, o, a, r) ==
    /\ op' = name
    /\ other' = o
    /\ arg' = a
    /\ call' = [method |-> r.method, ret |-> r.ret]
    /\ result' = r.out
    /\ UNCHANGED self

(* The method call  self.name(...). *)
Method(name, o, a, r) ==
    /\ op' = name
    /\ other' = o
    /\ arg' = a
    /\ call' = [method |-> name, ret |-> r]
    /\ result' = r
    /\ UNCHANGED self

Add ==
    /\ op = "new"
    /\ \E o \in Operands : Apply("add", o, None, BinaryAdd(Vec(self), o))

RAdd ==
    /\ op = "new"
    /\ \E o \in Operands : Apply("radd", o, None, BinaryAdd(o, Vec(self)))

Sub ==
    /\ op = "new"
    /\ \E o \in Operands : Apply("sub", o, None, BinarySub(Vec(self), o))

RSub ==
    /\ op = "new"
    /\ \E o \in Operands : Apply("rsub", o, None, BinarySub(o, Vec(self)))

Mul ==
    /\ op = "new"
    /\ \E s \in Scalars : Apply("mul", None, s, BinaryMul(Vec(self), s))

RMul ==
    /\ op = "new"
    /\ \E s \in Scalars : Apply("rmul", None, s, BinaryMul(s, Vec(self)))

Eq ==
    /\ op = "new"
    /\ \E o \in Operands : Method("__eq__", o, None, __eq__(self, o))

Dot ==
    /\ op = "new"
    /\ \E o \in Operands : Method("dot", o, None, dot(self, o))

Cross ==
    /\ op = "new"
    /\ \E o \in Operands : Method("cross", o, None, cross(self, o))

AngleTo ==
    /\ op = "new"
    /\ \E o \in Operands : Method("angle_to", o, None, angle_to(self, o))

Projected ==
    /\ op = "new"
    /\ \E o \in Operands : Method("projected", o, None, projected(self, o))

Angle ==
    /\ op = "new"
    /\ Method("angle", None, None, angle(self))

Normalized ==
    /\ op = "new"
    /\ Method("normalized", None, None, normalized(self))

Perpendicular ==
    /\ op = "new"
    /\ Method("perpendicular", None, None, perpendicular(self))

Rotated ==
    /\ op = "new"
    /\ \E theta \in Thetas : Method("rotated", None, theta, rotated(self, theta))

Scaled ==
    /\ op = "new"
    /\ \E s \in Scalars : Method("scaled", None, s, scaled(self, s))

Repr ==
    /\ op = "new"
    /\ Method("__repr__", None, None, [kind |-> "str", tokens |-> __repr__(self)])

(* The rendering is read back and its argument list given to Vector(...). *)
Reconstruct ==
    /\ op = "__repr__"
    /\ op' = "reconstruct"
    /\ result' = Vector__new__(ParseArgs(ArgTokens(result.tokens)))
    /\ UNCHANGED <<self, other, arg, call>>

Next ==
    \/ Add \/ RAdd \/ Sub \/ RSub \/ Mul \/ RMul \/ Eq
    \/ Dot \/ Cross \/ AngleTo \/ Projected
    \/ Angle \/ Normalized \/ Perpendicular \/ Rotated \/ Scaled
    \/ Repr \/ Reconstruct

Spec == Init /\ [][Next]_vars

(***************************************************************************)
(* Properties.                                                             *)
(***************************************************************************)
SameLength == IsSequence(other) /\ Len(other.elems) = Len(self)

Mismatch == IsSequence(other) /\ Len(other.elems) # Len(self)

ZeroMagnitude(t) == sum([i \in 1..Len(t) |-> t[i] * t[i]]) = 0

IsDimensionError(r, name, n) ==
    /\ IsRaise(r)
    /\ r.exc = "ValueError"
    /\ r.name = name
    /\ r.dim = n

IsZeroDivision(r) == IsRaise(r) /\ r.exc = "ZeroDivisionError"

(* C1, as stated: with len(v) # len(w), each of v + w, w + v, v - w,      *)
(* w - v, v.dot(w), v.cross(w) raises IncompatibleDimensions carrying     *)
(* (len(v), len(w)), for w a Vector or a plain sequence.                  *)
C1_PairIsSelfOther ==
    (op \in {"add", "radd", "sub", "rsub", "dot", "cross"} /\ Mismatch)
        => result = IncompatibleDimensions(Len(self), Len(other.elems))

(* C1, amended: with len(v) # len(w), each of the six raises              *)
(* IncompatibleDimensions and yields no result; the pair it carries is    *)
(* (len(v), len(w)), except that w + v and w - v with w itself a Vector   *)
(* run w's method and carry (len(w), len(v)).                             *)
C1_MismatchRaises ==
    (op \in {"add", "radd", "sub", "rsub", "dot", "cross"} /\ Mismatch)
        => IF op \in {"radd", "rsub"} /\ other.kind = "Vector"
           THEN result = IncompatibleDimensions(Len(other.elems), Len(self))
           ELSE result = IncompatibleDimensions(Len(self), Len(other.elems))

C1_Witness ==
    /\ op = "rsub"
    /\ other.kind = "Vector"
    /\ Len(self) = 2
    /\ Len(other.elems) = 3
    /\ result = IncompatibleDimensions(3, 2)

(* C2: a vector of zero magnitude, of any length from 0, makes            *)
(* normalized(), scaled(s) and projected(other) (other of the same        *)
(* length) raise ZeroDivisionError.                                       *)
C2_ZeroMagnitudeRaises ==
    (/\ ZeroMagnitude(self)
     /\ \/ op \in {"normalized", "scaled"}
        \/ op = "projected" /\ SameLength)
        => IsZeroDivision(result)

(* C3, as stated: a vector whose length is not 2 or 3 makes cross(other)  *)
(* raise the dimension error naming 'cross' and the length, for other of  *)
(* the same or of a different length.                                     *)
C3_AlwaysDimensionError ==
    (op = "cross" /\ IsSequence(other) /\ Len(self) \notin {2, 3})
        => IsDimensionError(result, "cross", Len(self))

(* C3, amended: a vector whose length is not 2 or 3 makes cross(other)    *)
(* raise the dimension error naming 'cross' and the length when other has *)
(* the same length; when other's length differs the lengths are compared  *)
(* first and IncompatibleDimensions (len(v), len(other)) is raised.       *)
C3_DimensionErrorAfterLengthCheck ==
    (op = "cross" /\ IsSequence(other) /\ Len(self) \notin {2, 3})
        => IF Len(other.elems) = Len(self)
           THEN IsDimensionError(result, "cross", Len(self))
           ELSE result = IncompatibleDimensions(Len(self), Len(other.elems))

C3_Witness ==
    /\ op = "cross"
    /\ Len(self) = 1
    /\ IsSequence(other)
    /\ Len(other.elems) = 1
    /\ IsDimensionError(result, "cross", 1)

(* C4: angle, perpendicular() and rotated(theta) raise the dimension      *)
(* error naming the operation and len(v) exactly when len(v) # 2; at      *)
(* length 2 perpendicular() is the Vector (-v[1], v[0]).                  *)
C4_TwoDimensionalOnly ==
    (op \in {"angle", "perpendicular", "rotated"})
        => /\ IsDimensionError(result, op, Len(self)) <=> Len(self) # 2
           /\ Len(self) = 2 => ~IsRaise(result)
           /\ (op = "perpendicular" /\ Len(self) = 2)
                 => result = Vec(<<-self[2], self[1]>>)

C4_Witness ==
    /\ op = "perpendicular"
    /\ self = <<1, -1>>
    /\ result = Vec(<<1, 1>>)

(* C5: for other of the same length as v (any length, 2 and 3 included),  *)
(* if v or other has zero magnitude then v.angle_to(other) raises         *)
(* ZeroDivisionError.                                                     *)
C5_AngleToZeroRaises ==
    (/\ op = "angle_to"
     /\ SameLength
     /\ ZeroMagnitude(self) \/ ZeroMagnitude(other.elems))
        => IsZeroDivision(result)

(* C6, as stated: for w a Vector or a plain sequence of any kind, v == w  *)
(* exactly when the lengths are equal and the elements are pairwise       *)
(* equal.                                                                 *)
C6_EqualToAnySequence ==
    (op = "__eq__" /\ IsSequence(other))
        => (result.val <=>
               /\ Len(self) = Len(other.elems)
               /\ \A i \in 1..Len(self) : self[i] = other.elems[i])

(* C6, amended: for w a Vector or a tuple, v == w exactly when the        *)
(* lengths are equal and the elements are pairwise equal; for a sequence  *)
(* that is not a tuple (a list) v == w is False.                          *)
C6_EqualToTuples ==
    (op = "__eq__" /\ IsSequence(other))
        => IF other.kind \in {"Vector", "tuple"}
           THEN (result.val <=>
                    /\ Len(self) = Len(other.elems)
                    /\ \A i \in 1..Len(self) : self[i] = other.elems[i])
           ELSE result = Bool(FALSE)

C6_Witness ==
    /\ op = "__eq__"
    /\ self = <<1, -1>>
    /\ other = [kind |-> "list", elems |-> <<1, -1>>]
    /\ result = Bool(FALSE)

(* C7: with an operand that is not a sequence, the operator method behind *)
(* v + o, o + v, v - o, o - v returns NotImplemented; no                  *)
(* IncompatibleDimensions is raised and no Vector is produced.            *)
C7_NotImplementedForScalars ==
    (op \in {"add", "radd", "sub", "rsub"} /\ ~IsSequence(other))
        => /\ call.ret = NotImplemented
           /\ call.method = (CASE op = "add" -> "__add__"
                               [] op = "radd" -> "__radd__"
                               [] op = "sub" -> "__sub__"
                               [] op = "rsub" -> "__rsub__")
           /\ result.kind # "Vector"
           /\ ~(IsRaise(result) /\ result.exc = "IncompatibleDimensions")

C7_Witness ==
    /\ op = "add"
    /\ Len(self) = 2
    /\ other = PyInt(1)
    /\ call = [method |-> "__add__", ret |-> NotImplemented]

(* C8: for w of the same length as v (a Vector or a plain sequence of     *)
(* integers) v + w and w + v are the same Vector, and for an integer s,   *)
(* s * v and v * s are; each has the length of v.                         *)
C8_Commutative ==
    /\ (op = "add" /\ SameLength)
          => /\ result.kind = "Vector"
             /\ Len(result.elems) = Len(self)
             /\ result = BinaryAdd(other, Vec(self)).out
    /\ (op = "mul")
          => /\ result.kind = "Vector"
             /\ Len(result.elems) = Len(self)
             /\ result = BinaryMul(arg, Vec(self)).out

C8_Witness ==
    /\ op = "add"
    /\ self = <<1, -1, 0>>
    /\ other = [kind |-> "list", elems |-> <<1, 1, 1>>]
    /\ result = Vec(<<2, 0, 1>>)

(* C9: Vector(a, b).cross((c, d)) is the scalar a*d - b*c, and            *)
(* Vector(a, b, 0).cross((c, d, 0)) is Vector(0, 0, a*d - b*c); a 3-D     *)
(* cross product is a Vector of length 3.                                 *)
C9_CrossProduct ==
    (op = "cross" /\ SameLength)
        => /\ Len(self) = 2
                => result = PyInt(self[1] * other.elems[2] - self[2] * other.elems[1])
           /\ Len(self) = 3
                => /\ result.kind = "Vector"
                   /\ Len(result.elems) = 3
           /\ (Len(self) = 3 /\ self[3] = 0 /\ other.elems[3] = 0)
                => result = Vec(<<0, 0, self[1] * other.elems[2]
                                        - self[2] * other.elems[1]>>)

C9_Witness ==
    /\ op = "cross"
    /\ self = <<1, 1, 0>>
    /\ other = [kind |-> "tuple", elems |-> <<-1, 1, 0>>]
    /\ result = Vec(<<0, 0, 2>>)

(* C10: giving the argument list of v's rendering back to Vector(...)     *)
(* yields a vector equal to v, for every length from 0; only the          *)
(* rendering of a length-1 vector opens with two parentheses.             *)
C10_DisplayRoundTrip ==
    /\ op = "reconstruct"
          => /\ result.kind = "Vector"
             /\ __eq__(self, result) = Bool(TRUE)
             /\ Len(result.elems) = Len(self)
    /\ op = "__repr__"
          => (Len(self) = 1 <=> (result.tokens[2] = "(" /\ result.tokens[3] = "("))

C10_Witness ==
    /\ op = "reconstruct"
    /\ self = <<-1>>
    /\ result = Vec(<<-1>>)

====
